---- MODULE Spec2Model ----
(***************************************************************************)
(* Model of the chunked codebase analysis engine (codeanalysis.py):        *)
(* CodebaseAnalyzer.get_file_chunks, is_cache_valid, the padding logic and *)
(* the process_codebase run with its persisted progress / cache mapping.   *)
(*                                                                         *)
(* Text is a sequence of characters over Chars.  "w" stands for any        *)
(* non-whitespace character, so a word is a maximal run of "w".            *)
(***************************************************************************)
EXTENDS Integers, Sequences, FiniteSets, TLC

\* ------------------------------------------------------------------ bounds
\* Longest file text enumerated for the pure functions.
MaxTextLen == 5
\* Largest chunk_size enumerated for get_file_chunks.
MaxChunkSize == 3
\* Largest min_token_count enumerated for the padding logic.
MaxMinTokens == 12
\* Longest text of one content part enumerated for the padding logic.
MaxPartLen == 3
\* Largest clock value (modification and cache creation times are 0..MaxTime).
MaxTime == 2
\* Largest number of issues one model response is parsed into.
MaxIssues == 1

\* The largest number of blocks of an enumerated response.
MaxBlocks == 3

\* ------------------------------------------------------------ text helpers
Chars == {"w", " ", "\n"}

Whitespace == {" ", "\n"}

\* All texts of length <= n.
TextsUpTo(n) == UNION {[1..k -> Chars] : k \in 0..n}

\* ''.join(parts)
RECURSIVE Join(_)
Join(parts) == IF parts = <<>> THEN <<>> ELSE Head(parts) \o Join(Tail(parts))

\* f.readlines(): the text cut after every "\n"; each line keeps its "\n", a
\* last line without one is kept as it is, and an empty text has no lines.
RECURSIVE ReadLinesFrom(_, _, _)
ReadLinesFrom(text, i, cur) ==
    IF i > Len(text)
    THEN IF cur = <<>> THEN <<>> ELSE <<cur>>
    ELSE IF text[i] = "\n"
         THEN <<Append(cur, "\n")>> \o ReadLinesFrom(text, i + 1, <<>>)
         ELSE ReadLinesFrom(text, i + 1, Append(cur, text[i]))

ReadLines(text) == ReadLinesFrom(text, 1, <<>>)

\* len(text.split()): the number of maximal runs of non-whitespace characters.
RECURSIVE WordCountFrom(_, _, _)
WordCountFrom(text, i, inWord) ==
    IF i > Len(text) THEN 0
    ELSE IF text[i] \in Whitespace
         THEN WordCountFrom(text, i + 1, FALSE)
         ELSE (IF inWord THEN 0 ELSE 1) + WordCountFrom(text, i + 1, TRUE)

WordCount(text) == WordCountFrom(text, 1, FALSE)

\* s * n
RECURSIVE Repeat(_, _)
Repeat(s, n) == IF n <= 0 THEN <<>> ELSE s \o Repeat(s, n - 1)

\* ---------------------------------------------------------- get_file_chunks
CodeChunk(file_path, start_line, end_line, content) ==
    [file_path |-> file_path, start_line |-> start_line,
     end_line |-> end_line, content |-> content]

\* Mutant of FlushRemainder: the trailing "if current_chunk:" block is lost.
FlushRemainderDropped(file_path, lines, chunks, current_chunk, current_start) ==
    chunks

\* Mutant of RemainderEndLine: the index of the last line, as for the chunks
\* the loop cuts.
RemainderEndLineInclusive(lines) == Len(lines) - 1

\* end_line=len(lines) of the final chunk.
RemainderEndLine(lines) == Len(lines)

\* The block after the loop: a non-empty buffer becomes the final chunk, whose
\* end_line is len(lines).
FlushRemainder(file_path, lines, chunks, current_chunk, current_start) ==
    IF current_chunk # <<>>
    THEN Append(chunks, CodeChunk(file_path, current_start,
                                  RemainderEndLine(lines), Join(current_chunk)))
    ELSE chunks

\* Mutant of ReachesThreshold: the buffer is cut only once it is longer than
\* chunk_size.
ExceedsThreshold(current_chunk, size) == Len(Join(current_chunk)) > size

\* len(''.join(current_chunk)) >= self.chunk_size
ReachesThreshold(current_chunk, size) == Len(Join(current_chunk)) >= size

\* The for loop over enumerate(lines); i is the 0-based index of the next line.
RECURSIVE ChunkLoop(_, _, _, _, _, _, _)
ChunkLoop(file_path, lines, size, i, chunks, current_chunk, current_start) ==
    IF i >= Len(lines)
    THEN FlushRemainder(file_path, lines, chunks, current_chunk, current_start)
    ELSE LET appended == Append(current_chunk, lines[i + 1])
         IN  IF ReachesThreshold(appended, size)
             THEN ChunkLoop(file_path, lines, size, i + 1,
                            Append(chunks, CodeChunk(file_path, current_start, i,
                                                     Join(appended))),
                            <<>>, i + 1)
             ELSE ChunkLoop(file_path, lines, size, i + 1, chunks,
                            appended, current_start)

\* get_file_chunks on a file whose decoded text is `text`.
get_file_chunks(file_path, text, size) ==
    ChunkLoop(file_path, ReadLines(text), size, 0, <<>>, <<>>, 0)

\* ----------------------------------------------------------- is_cache_valid
CacheKey == "codebase_cache_name"

\* A cache identifier is the sequence of its "."-separated segments; the last
\* segment is the creation timestamp.
CacheName(t) == <<"cachedContents/codebase", t>>

\* name.split(".")[-1], read as a timestamp.
CreationTime(name) == name[Len(name)]

\* Mutant of MTimeNotAfter: strict comparison.
MTimeStrictlyBefore(last_modified_time, cache_creation_timestamp) ==
    last_modified_time < cache_creation_timestamp

\* return last_modified_time <= cache_creation_timestamp
MTimeNotAfter(last_modified_time, cache_creation_timestamp) ==
    last_modified_time <= cache_creation_timestamp

\* is_cache_valid(file_path) with the analyzer's mapping and a filesystem in
\* which exactly the paths of DOMAIN mtimes exist.
is_cache_valid(mapping, mtimes, file_path) ==
    IF CacheKey \notin DOMAIN mapping THEN FALSE
    ELSE IF file_path \notin DOMAIN mtimes THEN FALSE
    ELSE MTimeNotAfter(mtimes[file_path], CreationTime(mapping[CacheKey]))

\* ------------------------------------------------------------ padding logic
\* "This is padding content to meet the minimum token requirement for
\* caching. ": twelve words, each followed by one space.
PaddingSentence == Repeat(<<"w", " ">>, 12)

\* "--- PADDING START ---" and "--- PADDING END ---": four words each.
PaddingStart == <<"w", " ", "w", " ", "w", " ", "w">>

PaddingEnd == <<"w", " ", "w", " ", "w", " ", "w">>

\* Mutant of PaddingRepeats: the "+ 1" is lost.
PaddingRepeatsFloor(padding_tokens_needed) == padding_tokens_needed \div 10

\* padding_tokens_needed // 10 + 1
PaddingRepeats(padding_tokens_needed) == padding_tokens_needed \div 10 + 1

PaddingContent(padding_tokens_needed) ==
    PaddingStart \o <<"\n">>
        \o Repeat(PaddingSentence, PaddingRepeats(padding_tokens_needed))
        \o <<"\n">> \o PaddingEnd

RECURSIVE TotalTokens(_)
TotalTokens(parts) ==
    IF parts = <<>> THEN 0 ELSE WordCount(Head(parts)) + TotalTokens(Tail(parts))

\* The padding block of process_codebase applied to codebase_content_parts.
PadParts(parts, min_tokens) ==
    IF parts # <<>> /\ TotalTokens(parts) < min_tokens
    THEN Append(parts, PaddingContent(min_tokens - TotalTokens(parts)))
    ELSE parts

\* ------------------------------------------------------- the analysed tree
\* Scaled-down constructor arguments of CodebaseAnalyzer (chunk_size and
\* min_token_count; any positive values are legal).
ChunkSize == 3

MinTokenCount == 4

\* The files a base_path can hold: extension, whether open(..., "r").read()
\* decodes, and the decoded text.
FileTable ==
    [p \in {"a.py", "b.js", "c.cpp", "e.py", "bad.py", "notes.txt"} |->
        CASE p = "a.py"      -> [ext |-> ".py",  decodes |-> TRUE,
                                 text |-> <<"w", " ", "w", "\n", "w", "\n">>]
          [] p = "b.js"      -> [ext |-> ".js",  decodes |-> TRUE,
                                 text |-> <<"w", "\n">>]
          [] p = "c.cpp"     -> [ext |-> ".cpp", decodes |-> TRUE,
                                 text |-> <<"w">>]
          [] p = "e.py"      -> [ext |-> ".py",  decodes |-> TRUE, text |-> <<>>]
          [] p = "bad.py"    -> [ext |-> ".py",  decodes |-> FALSE, text |-> <<>>]
          [] p = "notes.txt" -> [ext |-> ".txt", decodes |-> TRUE,
                                 text |-> <<"w", " ", "w">>]]

\* The orders in which os.walk can list the tree: with and without a source
\* file that does not decode, and a tree with an empty source file.
Directories ==
    { <<"a.py", "notes.txt", "bad.py", "b.js">>,
      <<"a.py", "notes.txt", "b.js">>,
      <<"e.py", "c.cpp">> }

\* file.endswith((".py", ".js", ".cpp"))
RecognizedExtensions == {".py", ".js", ".cpp"}

IsSourceFile(file) == FileTable[file].ext \in RecognizedExtensions

Range(seq) == {seq[i] : i \in DOMAIN seq}

\* Files whose modification time a run can read.
Touchable(dir) == {f \in Range(dir) : IsSourceFile(f) /\ FileTable[f].decodes}

\* The chunks get_file_chunks returns for a file of the tree.
ChunksOf(file_path) ==
    IF FileTable[file_path].decodes
    THEN get_file_chunks(file_path, FileTable[file_path].text, ChunkSize)
    ELSE <<>>

\* ------------------------------------------------------------------- state
EmptyMapping == [k \in {} |-> <<>>]

\* None where a cache identifier is expected.
NoCache == <<>>

\* load_progress's default.
DefaultProgress ==
    [processed_files |-> <<>>, current_file |-> "None", current_position |-> 0]

NoResume == [state |-> "none", A |-> "None", B |-> "None"]

NoFlags == [all_done_at_start |-> FALSE, created |-> FALSE,
            mapping_written |-> FALSE, progress_written |-> FALSE,
            missing |-> FALSE, creates |-> 0,
            again |-> FALSE, earlier_issues |-> FALSE]

VARIABLES
    walk,                   \* os.walk's listing of base_path
    mtime,                  \* modification time of each file
    now,                    \* the clock
    progress_file,          \* analysis_progress.json: [state, content]
    cache_mapping_file,     \* cache_mapping.json: [state, content]
    pc,                     \* position of the process in process_codebase
    cache_mapping,          \* self.cache_mapping
    issues_db,              \* self.issues_db
    progress,               \* progress (local of process_codebase)
    codebase_files,         \* codebase_files
    codebase_content_parts, \* codebase_content_parts
    file_idx,               \* position of "for file_path in codebase_files"
    chunks,                 \* chunks of the current file
    chunk_idx,              \* position of "for chunk in chunks"
    gen_calls,              \* history: generate_content calls of this run
    analyzed,               \* history: <<path, k>> whose call completed, ever
    failures,               \* history: <<path, k>> whose call raised, this run
    returned,               \* history: issues analyze_chunk returned, this run
    abort_cause,            \* history: what raised out of process_codebase
    resume,                 \* history: the crash window of the previous run
    flags,                  \* history: what this run has done so far
    fn_in,                  \* input of a pure function under test
    fn_out                  \* its result

diskVars == <<walk, mtime, now, progress_file, cache_mapping_file>>

procVars == <<pc, cache_mapping, issues_db, progress, codebase_files,
              codebase_content_parts, file_idx, chunks, chunk_idx>>

histVars == <<gen_calls, analyzed, failures, returned, abort_cause, resume, flags>>

fnVars == <<fn_in, fn_out>>

vars == <<diskVars, procVars, histVars, fnVars>>

NoInput == [op |-> "none"]

NoOutput == [op |-> "none"]

\* No process: nothing in memory.
NoProcess ==
    /\ cache_mapping = EmptyMapping
    /\ issues_db = [f \in {} |-> <<>>]
    /\ progress = DefaultProgress
    /\ codebase_files = <<>>
    /\ codebase_content_parts = <<>>
    /\ file_idx = 1
    /\ chunks = <<>>
    /\ chunk_idx = 1
    /\ gen_calls = <<>>
    /\ failures = {}
    /\ returned = [f \in {} |-> <<>>]
    /\ abort_cause = "none"
    /\ flags = NoFlags

\* A fresh directory: no progress file, no cache mapping file.
Init ==
    /\ walk \in Directories
    /\ mtime = [f \in DOMAIN FileTable |-> 0]
    /\ now = 0
    /\ progress_file = [state |-> "absent", content |-> DefaultProgress]
    /\ cache_mapping_file = [state |-> "absent", content |-> EmptyMapping]
    /\ pc = "idle"
    /\ NoProcess
    /\ analyzed = {}
    /\ resume = NoResume
    /\ fn_in = NoInput
    /\ fn_out = NoOutput

\* ----------------------------------------------------- persistence helpers
\* Mutant of load_progress: the file is never read.
load_progress_default(file) == DefaultProgress

\* load_progress: the file's JSON, or the default when there is no file.
load_progress(file) ==
    IF file.state = "valid" THEN file.content ELSE DefaultProgress

\* load_cache_mapping: the file's JSON, or {} when there is no file.
load_cache_mapping(file) ==
    IF file.state = "valid" THEN file.content ELSE EmptyMapping

\* open(path, "w") has truncated the file and json.dump has not written yet.
Truncated(empty) == [state |-> "truncated", content |-> empty]

Persisted(content) == [state |-> "valid", content |-> content]

\* self.cache_mapping.get("codebase_cache_name")
mapping_get(mapping) ==
    IF CacheKey \in DOMAIN mapping THEN mapping[CacheKey] ELSE NoCache

\* --------------------------------------------------------------- discovery
\* Mutant of NotProcessed: the processed_files filter is lost.
NotProcessedIgnored(file_path, prog) == TRUE

\* file_path not in progress["processed_files"]
NotProcessed(file_path, prog) == file_path \notin Range(prog.processed_files)

\* Mutant of CanDecode: UnicodeDecodeError is never raised.
CanDecodeAlways(file_path) == TRUE

\* with open(file_path, "r", encoding="utf-8") as f: f.read() does not raise
\* UnicodeDecodeError.
CanDecode(file_path) == FileTable[file_path].decodes

\* process_directory: source files, not yet processed, that decode, in walk
\* order.
Discovered(dir, prog) ==
    SelectSeq(dir, LAMBDA f : /\ IsSourceFile(f)
                              /\ NotProcessed(f, prog)
                              /\ CanDecode(f))

\* Mutant of NeedsCache: an entry is reused without looking at the file.
NeedsCacheNoEntryOnly(parts, mapping, mtimes, files) ==
    /\ parts # <<>>
    /\ CacheKey \notin DOMAIN mapping

\* codebase_content_parts and ("codebase_cache_name" not in self.cache_mapping
\*                             or not self.is_cache_valid(codebase_files[0]))
NeedsCache(parts, mapping, mtimes, files) ==
    /\ parts # <<>>
    /\ \/ CacheKey \notin DOMAIN mapping
       \/ ~is_cache_valid(mapping, mtimes, files[1])

\* ------------------------------------------------------------ response parsing
\* A response text is a sequence of tokens.  The literals the parser looks for
\* ("No issues found", "---", ":", "Fix Suggestion", "Priority", "None", a
\* newline, a blank) are one token each; every other token is a word.
NoIssuesFound == "No issues found"
Delimiter == "---"
Newline == "\n"
Colon == ":"

\* int(): the integer literals of the modelled responses and their values.
IntValue == ("2" :> 2) @@ ("7" :> 7)

\* Issue.fix_suggestion: None, or a text (which may be empty).
Absent == [some |-> FALSE, text |-> <<>>]
Some(text) == [some |-> TRUE, text |-> text]

Issue(chunk, description, fix_suggestion, priority) ==
    [chunk |-> chunk, description |-> description,
     fix_suggestion |-> fix_suggestion, priority |-> priority]

\* str.split(sep): the pieces between the separators, empty pieces included.
RECURSIVE SplitFrom(_, _, _, _, _)
SplitFrom(text, sep, i, pieces, current) ==
    IF i > Len(text) THEN Append(pieces, current)
    ELSE IF text[i] = sep
         THEN SplitFrom(text, sep, i + 1, Append(pieces, current), <<>>)
         ELSE SplitFrom(text, sep, i + 1, pieces, Append(current, text[i]))

Split(text, sep) == SplitFrom(text, sep, 1, <<>>, <<>>)

\* str.strip(): leading and trailing whitespace removed.
RECURSIVE LStrip(_)
LStrip(text) ==
    IF text # <<>> /\ Head(text) \in Whitespace THEN LStrip(Tail(text)) ELSE text

RECURSIVE RStrip(_)
RStrip(text) ==
    IF text # <<>> /\ text[Len(text)] \in Whitespace
    THEN RStrip(SubSeq(text, 1, Len(text) - 1))
    ELSE text

Strip(text) == RStrip(LStrip(text))

\* Mutant of HasNoIssuesFound: the phrase counts only as the whole response.
HasNoIssuesFoundWhole(text) == Strip(text) = <<NoIssuesFound>>

\* "No issues found" in text
HasNoIssuesFound(text) == \E i \in DOMAIN text : text[i] = NoIssuesFound

\* The index of the first colon of a line, 0 when it has none.
ColonAt(line) ==
    IF \E i \in DOMAIN line : line[i] = Colon
    THEN CHOOSE i \in DOMAIN line :
            line[i] = Colon /\ \A j \in 1..(i - 1) : line[j] # Colon
    ELSE 0

\* line.split(":", 1)[1].strip(), for a line that has a colon.
AfterFirstColon(line) == Strip(SubSeq(line, ColonAt(line) + 1, Len(line)))

\* part.startswith("<label>:")
StartsWithLabel(part, label) ==
    Len(part) >= 2 /\ part[1] = label /\ part[2] = Colon

\* Mutant of NoneIsAbsent: the literal None is kept as a text.
NoneKept(fix_suggestion) == Some(fix_suggestion)

\* if fix_suggestion == "None": fix_suggestion = None
NoneIsAbsent(fix_suggestion) ==
    IF fix_suggestion = <<"None">> THEN Absent ELSE Some(fix_suggestion)

\* int(text) raises ValueError unless the stripped text is an integer literal.
IsInt(text) == Len(Strip(text)) = 1 /\ Strip(text)[1] \in DOMAIN IntValue
ToInt(text) == IntValue[Strip(text)[1]]

\* "for part in issue_parts[1:]": the fields seen so far, and whether int()
\* has raised.
RECURSIVE ParseParts(_, _, _)
ParseParts(issue_parts, i, acc) ==
    IF i > Len(issue_parts) \/ ~acc.ok THEN acc
    ELSE LET part == issue_parts[i]
         IN  IF StartsWithLabel(part, "Fix Suggestion")
             THEN ParseParts(issue_parts, i + 1,
                    [acc EXCEPT !.fix_suggestion =
                                    NoneIsAbsent(AfterFirstColon(part))])
             ELSE IF StartsWithLabel(part, "Priority")
             THEN IF IsInt(AfterFirstColon(part))
                  THEN ParseParts(issue_parts, i + 1,
                         [acc EXCEPT !.priority = ToInt(AfterFirstColon(part))])
                  ELSE [acc EXCEPT !.ok = FALSE]
             ELSE ParseParts(issue_parts, i + 1, acc)

\* The body of the try of one block: the Issue it builds, or ok = FALSE when
\* an exception is raised (IndexError of split(":", 1)[1], ValueError of int).
ParseBlock(chunk, issue_text) ==
    LET issue_parts == Split(issue_text, Newline)
        first == issue_parts[1]
        fields == ParseParts(issue_parts, 2,
                    [ok |-> TRUE, fix_suggestion |-> Absent, priority |-> 0])
    IN  IF ColonAt(first) = 0 \/ ~fields.ok
        THEN [ok |-> FALSE, issue |-> Issue(chunk, <<>>, Absent, 0)]
        ELSE [ok |-> TRUE,
              issue |-> Issue(chunk, AfterFirstColon(first),
                              fields.fix_suggestion, fields.priority)]

RECURSIVE ParseBlocks(_, _, _)

\* Mutant of SkipBlock: the first block that fails ends the parsing.
SkipBlockStops(chunk, rest, issues) == issues

\* except Exception: the block is reported and the loop goes on.
SkipBlock(chunk, rest, issues) == ParseBlocks(chunk, rest, issues)

\* for issue_text in text.split("---")
ParseBlocks(chunk, pieces, issues) ==
    IF pieces = <<>> THEN issues
    ELSE LET issue_text == Strip(Head(pieces))
             parsed == ParseBlock(chunk, issue_text)
         IN  IF issue_text = <<>> THEN ParseBlocks(chunk, Tail(pieces), issues)
             ELSE IF parsed.ok
             THEN ParseBlocks(chunk, Tail(pieces), Append(issues, parsed.issue))
             ELSE SkipBlock(chunk, Tail(pieces), issues)

\* The parsing step of analyze_chunk, from the text of a response that has
\* candidates.
ParseResponse(chunk, text) ==
    IF HasNoIssuesFound(text) THEN <<>>
    ELSE ParseBlocks(chunk, Split(text, Delimiter), <<>>)

\* A response of n well-formed blocks, "No issues found" when n = 0.
RECURSIVE WellFormedResponse(_)
WellFormedResponse(n) ==
    IF n = 0 THEN <<NoIssuesFound>>
    ELSE (IF n = 1 THEN <<>> ELSE WellFormedResponse(n - 1) \o <<Newline>>)
         \o <<"Issue", Colon, " ", ToString(n), Newline, Delimiter>>

\* ------------------------------------------------------------ analysis loop
\* Mutant of ChunksExhausted: the last chunk of a file is skipped.
ChunksExhaustedEarly(chs, idx) == idx >= Len(chs)

\* "for chunk in chunks" has no chunk left.
ChunksExhausted(chs, idx) == idx > Len(chs)

\* What analyze_chunk returns for a response holding n well-formed issues.
ParsedIssues(chunk, n) == ParseResponse(chunk, WellFormedResponse(n))

\* for issue in issues: self.issues_db.setdefault(file_path, []).append(...)
AppendIssues(db, file_path, issues, name) ==
    LET records == [j \in DOMAIN issues |->
                        [issue |-> issues[j], cached_content_name |-> name]]
    IN  IF issues = <<>> THEN db
        ELSE IF file_path \in DOMAIN db
             THEN [db EXCEPT ![file_path] = @ \o records]
             ELSE db @@ (file_path :> records)

\* The same bookkeeping for the history of what analyze_chunk returned.
AppendReturned(ret, file_path, issues) ==
    IF issues = <<>> THEN ret
    ELSE IF file_path \in DOMAIN ret
         THEN [ret EXCEPT ![file_path] = @ \o issues]
         ELSE ret @@ (file_path :> issues)

CurrentFile == codebase_files[file_idx]

GenCall(file_path, k, name) == [file_path |-> file_path, k |-> k, cached |-> name]

\* The process is gone: nothing is left in memory.
ClearProcess ==
    /\ pc' = "idle"
    /\ cache_mapping' = EmptyMapping
    /\ issues_db' = [f \in {} |-> <<>>]
    /\ progress' = DefaultProgress
    /\ codebase_files' = <<>>
    /\ codebase_content_parts' = <<>>
    /\ file_idx' = 1
    /\ chunks' = <<>>
    /\ chunk_idx' = 1
    /\ gen_calls' = <<>>
    /\ failures' = {}
    /\ returned' = [f \in {} |-> <<>>]
    /\ abort_cause' = "none"
    /\ flags' = NoFlags

\* An exception leaves process_codebase.
Abort(cause) ==
    /\ pc' = "aborted"
    /\ abort_cause' = cause

\* ----------------------------------------------------------------- actions
\* CodebaseAnalyzer(base_path) and the head of process_codebase: the mapping
\* and the progress are loaded, issues_db is reset.
StartRun ==
    /\ pc = "idle"
    /\ cache_mapping_file.state # "truncated"
    /\ progress_file.state # "truncated"
    /\ cache_mapping' = load_cache_mapping(cache_mapping_file)
    /\ progress' = load_progress(progress_file)
    /\ issues_db' = [f \in {} |-> <<>>]
    /\ pc' = "discover"
    /\ flags' = [NoFlags EXCEPT !.all_done_at_start =
                    \A f \in Range(walk) :
                        IsSourceFile(f) =>
                            f \in Range(progress_file.content.processed_files)]
    /\ resume' = IF resume.state = "pending"
                 THEN [resume EXCEPT !.state = "running"]
                 ELSE IF resume.state = "partial_pending"
                 THEN [resume EXCEPT !.state = "partial_running"]
                 ELSE IF resume.state = "sf_pending"
                 THEN [resume EXCEPT !.state = "sf_running"]
                 ELSE NoResume
    /\ UNCHANGED <<diskVars, codebase_files, codebase_content_parts, file_idx,
                   chunks, chunk_idx, gen_calls, analyzed, failures, returned,
                   abort_cause, fnVars>>

\* json.load raises on a file that a crash left truncated.
StartRunCorrupt ==
    /\ pc = "idle"
    /\ \/ cache_mapping_file.state = "truncated"
       \/ progress_file.state = "truncated"
    /\ Abort("persistence")
    /\ resume' = NoResume
    /\ UNCHANGED <<diskVars, cache_mapping, issues_db, progress, codebase_files,
                   codebase_content_parts, file_idx, chunks, chunk_idx,
                   gen_calls, analyzed, failures, returned, flags, fnVars>>

\* process_directory(self.base_path)
Discover ==
    /\ pc = "discover"
    /\ codebase_files' = Discovered(walk, progress)
    /\ codebase_content_parts' =
           [i \in DOMAIN Discovered(walk, progress) |->
                FileTable[Discovered(walk, progress)[i]].text]
    /\ pc' = "pad"
    /\ UNCHANGED <<diskVars, cache_mapping, issues_db, progress, file_idx,
                   chunks, chunk_idx, histVars, fnVars>>

\* The padding block.
Pad ==
    /\ pc = "pad"
    /\ codebase_content_parts' = PadParts(codebase_content_parts, MinTokenCount)
    /\ pc' = "cache"
    /\ UNCHANGED <<diskVars, cache_mapping, issues_db, progress, codebase_files,
                   file_idx, chunks, chunk_idx, histVars, fnVars>>

\* The condition of the cache block is false: nothing is created.
CacheReuse ==
    /\ pc = "cache"
    /\ ~NeedsCache(codebase_content_parts, cache_mapping, mtime, codebase_files)
    /\ pc' = "file"
    /\ UNCHANGED <<diskVars, cache_mapping, issues_db, progress, codebase_files,
                   codebase_content_parts, file_idx, chunks, chunk_idx,
                   histVars, fnVars>>

\* caching.CachedContent.create(...) returns; the entry is overwritten.
CacheCreate ==
    /\ pc = "cache"
    /\ NeedsCache(codebase_content_parts, cache_mapping, mtime, codebase_files)
    /\ cache_mapping' = (CacheKey :> CacheName(now))
    /\ flags' = [flags EXCEPT !.created = TRUE, !.creates = @ + 1]
    /\ pc' = "map_open"
    /\ UNCHANGED <<diskVars, issues_db, progress, codebase_files,
                   codebase_content_parts, file_idx, chunks, chunk_idx,
                   gen_calls, analyzed, failures, returned, abort_cause, resume,
                   fnVars>>

\* caching.CachedContent.create(...) raises: nothing catches it.
CacheCreateFail ==
    /\ pc = "cache"
    /\ NeedsCache(codebase_content_parts, cache_mapping, mtime, codebase_files)
    /\ Abort("cache_create")
    /\ UNCHANGED <<diskVars, cache_mapping, issues_db, progress, codebase_files,
                   codebase_content_parts, file_idx, chunks, chunk_idx,
                   gen_calls, analyzed, failures, returned, resume, flags, fnVars>>

\* save_cache_mapping: open(self.cache_mapping_file, "w") truncates the file.
SaveMappingOpen ==
    /\ pc = "map_open"
    /\ cache_mapping_file' = Truncated(EmptyMapping)
    /\ flags' = [flags EXCEPT !.mapping_written = TRUE]
    /\ pc' = "map_dump"
    /\ UNCHANGED <<walk, mtime, now, progress_file, cache_mapping, issues_db,
                   progress, codebase_files, codebase_content_parts, file_idx,
                   chunks, chunk_idx, gen_calls, analyzed, failures, returned,
                   abort_cause, resume, fnVars>>

\* save_cache_mapping: open raises OSError.
SaveMappingOpenFail ==
    /\ pc = "map_open"
    /\ Abort("persistence")
    /\ UNCHANGED <<diskVars, cache_mapping, issues_db, progress, codebase_files,
                   codebase_content_parts, file_idx, chunks, chunk_idx,
                   gen_calls, analyzed, failures, returned, resume, flags, fnVars>>

\* save_cache_mapping: json.dump(self.cache_mapping, f) and the close.
SaveMappingDump ==
    /\ pc = "map_dump"
    /\ cache_mapping_file' = Persisted(cache_mapping)
    /\ pc' = "file"
    /\ UNCHANGED <<walk, mtime, now, progress_file, cache_mapping, issues_db,
                   progress, codebase_files, codebase_content_parts, file_idx,
                   chunks, chunk_idx, histVars, fnVars>>

\* for file_path in codebase_files: chunks = self.get_file_chunks(file_path)
NextFile ==
    /\ pc = "file"
    /\ file_idx <= Len(codebase_files)
    /\ chunks' = ChunksOf(CurrentFile)
    /\ chunk_idx' = 1
    /\ pc' = "chunk"
    /\ UNCHANGED <<diskVars, cache_mapping, issues_db, progress, codebase_files,
                   codebase_content_parts, file_idx, histVars, fnVars>>

\* The for loop over codebase_files ends: process_codebase returns.
RunDone ==
    /\ pc = "file"
    /\ file_idx > Len(codebase_files)
    /\ pc' = "done"
    /\ UNCHANGED <<diskVars, cache_mapping, issues_db, progress, codebase_files,
                   codebase_content_parts, file_idx, chunks, chunk_idx,
                   histVars, fnVars>>

\* analyze_chunk: the model (cached or not) answers, the response is parsed
\* into n issues, and the caller appends them to issues_db.
AnalyzeChunk(n) ==
    /\ pc = "chunk"
    /\ ~ChunksExhausted(chunks, chunk_idx)
    /\ LET issues == ParsedIssues(chunks[chunk_idx], n)
       IN  /\ issues_db' = AppendIssues(issues_db, CurrentFile, issues,
                                        mapping_get(cache_mapping))
           /\ returned' = AppendReturned(returned, CurrentFile, issues)
    /\ gen_calls' = Append(gen_calls,
                           GenCall(CurrentFile, chunk_idx, mapping_get(cache_mapping)))
    /\ analyzed' = analyzed \cup {<<CurrentFile, chunk_idx>>}
    /\ chunk_idx' = chunk_idx + 1
    /\ UNCHANGED <<diskVars, pc, cache_mapping, progress, codebase_files,
                   codebase_content_parts, file_idx, chunks, failures,
                   abort_cause, resume, flags, fnVars>>

\* Mutant of AnalyzeChunkGenFail: the exception of generate_content is not
\* caught.
AnalyzeChunkGenFailUncaught ==
    /\ pc = "chunk"
    /\ ~ChunksExhausted(chunks, chunk_idx)
    /\ Abort("generation")
    /\ gen_calls' = Append(gen_calls,
                           GenCall(CurrentFile, chunk_idx, mapping_get(cache_mapping)))
    /\ failures' = failures \cup {<<CurrentFile, chunk_idx>>}
    /\ UNCHANGED <<diskVars, cache_mapping, issues_db, progress, codebase_files,
                   codebase_content_parts, file_idx, chunks, chunk_idx,
                   analyzed, returned, resume, flags, fnVars>>

\* analyze_chunk: generate_content raises; the except returns [].
AnalyzeChunkGenFail ==
    /\ pc = "chunk"
    /\ ~ChunksExhausted(chunks, chunk_idx)
    /\ gen_calls' = Append(gen_calls,
                           GenCall(CurrentFile, chunk_idx, mapping_get(cache_mapping)))
    /\ analyzed' = analyzed \cup {<<CurrentFile, chunk_idx>>}
    /\ failures' = failures \cup {<<CurrentFile, chunk_idx>>}
    /\ chunk_idx' = chunk_idx + 1
    /\ UNCHANGED <<diskVars, pc, cache_mapping, issues_db, progress,
                   codebase_files, codebase_content_parts, file_idx, chunks,
                   returned, abort_cause, resume, flags, fnVars>>

\* analyze_chunk: caching.CachedContent(cached_content_name=...) or
\* GenerativeModel.from_cached_content raises (the cached context has expired
\* or the service fails); both are outside the try.
AnalyzeChunkResolveFail ==
    /\ pc = "chunk"
    /\ ~ChunksExhausted(chunks, chunk_idx)
    /\ mapping_get(cache_mapping) # NoCache
    /\ Abort("cache_resolve")
    /\ UNCHANGED <<diskVars, cache_mapping, issues_db, progress, codebase_files,
                   codebase_content_parts, file_idx, chunks, chunk_idx,
                   gen_calls, analyzed, failures, returned, resume, flags, fnVars>>

\* Mutant of MarkProcessed: the file and the position reached are recorded
\* in the progress as well.
MarkProcessedTracksPosition ==
    /\ pc = "chunk"
    /\ ChunksExhausted(chunks, chunk_idx)
    /\ progress' = [progress EXCEPT !.processed_files = Append(@, CurrentFile),
                                    !.current_file = CurrentFile,
                                    !.current_position = chunk_idx]
    /\ pc' = "save_open"
    /\ UNCHANGED <<diskVars, cache_mapping, issues_db, codebase_files,
                   codebase_content_parts, file_idx, chunks, chunk_idx,
                   histVars, fnVars>>

\* progress["processed_files"].append(file_path)
MarkProcessed ==
    /\ pc = "chunk"
    /\ ChunksExhausted(chunks, chunk_idx)
    /\ progress' = [progress EXCEPT !.processed_files = Append(@, CurrentFile)]
    /\ pc' = "save_open"
    /\ UNCHANGED <<diskVars, cache_mapping, issues_db, codebase_files,
                   codebase_content_parts, file_idx, chunks, chunk_idx,
                   histVars, fnVars>>

\* save_progress: open(self.progress_file, "w") truncates the file.
SaveProgressOpen ==
    /\ pc = "save_open"
    /\ progress_file' = Truncated(DefaultProgress)
    /\ flags' = [flags EXCEPT !.progress_written = TRUE]
    /\ pc' = "save_dump"
    /\ UNCHANGED <<walk, mtime, now, cache_mapping_file, cache_mapping,
                   issues_db, progress, codebase_files, codebase_content_parts,
                   file_idx, chunks, chunk_idx, gen_calls, analyzed, failures,
                   returned, abort_cause, resume, fnVars>>

\* save_progress: open raises OSError.
SaveProgressOpenFail ==
    /\ pc = "save_open"
    /\ Abort("persistence")
    /\ UNCHANGED <<diskVars, cache_mapping, issues_db, progress, codebase_files,
                   codebase_content_parts, file_idx, chunks, chunk_idx,
                   gen_calls, analyzed, failures, returned, resume, flags, fnVars>>

\* save_progress: json.dump(progress, f) and the close; the loop moves on.
SaveProgressDump ==
    /\ pc = "save_dump"
    /\ progress_file' = Persisted(progress)
    /\ file_idx' = file_idx + 1
    /\ pc' = "file"
    /\ UNCHANGED <<walk, mtime, now, cache_mapping_file, cache_mapping,
                   issues_db, progress, codebase_files, codebase_content_parts,
                   chunks, chunk_idx, histVars, fnVars>>

\* The run stands after a completed save_progress and before the first chunk
\* of the next file.
InResumeWindow ==
    /\ file_idx > 1
    /\ file_idx <= Len(codebase_files)
    /\ \/ pc = "file"
       \/ pc = "chunk" /\ chunk_idx = 1

\* Some chunks of the current file have been analyzed and some have not.
InPartialWindow ==
    /\ pc = "chunk"
    /\ chunk_idx > 1
    /\ chunk_idx <= Len(chunks)

\* The process is killed in the middle of a run.
Crash ==
    /\ pc \in {"discover", "pad", "cache", "map_open", "map_dump", "file",
              "chunk", "save_open", "save_dump"}
    /\ resume' = IF InResumeWindow
                 THEN [state |-> "pending", A |-> codebase_files[file_idx - 1],
                       B |-> codebase_files[file_idx]]
                 ELSE IF InPartialWindow
                 THEN [state |-> "partial_pending", A |-> "None",
                       B |-> CurrentFile]
                 ELSE NoResume
    /\ ClearProcess
    /\ UNCHANGED <<diskVars, analyzed, fnVars>>

\* Mutant of RunAgain: the issues of the invocation before stay in the index.
RunAgainKeepsIndex ==
    /\ pc = "done"
    /\ progress' = load_progress(progress_file)
    /\ codebase_files' = <<>>
    /\ codebase_content_parts' = <<>>
    /\ file_idx' = 1
    /\ chunks' = <<>>
    /\ chunk_idx' = 1
    /\ pc' = "discover"
    /\ gen_calls' = <<>>
    /\ failures' = {}
    /\ returned' = [f \in {} |-> <<>>]
    /\ resume' = NoResume
    /\ flags' = [NoFlags EXCEPT
                    !.all_done_at_start =
                        \A f \in Range(walk) :
                            IsSourceFile(f) =>
                                f \in Range(progress_file.content.processed_files),
                    !.again = TRUE,
                    !.earlier_issues = (issues_db # [f \in {} |-> <<>>])]
    /\ UNCHANGED <<diskVars, cache_mapping, issues_db, analyzed, abort_cause,
                   fnVars>>

\* process_codebase is called again on the analyzer whose invocation has
\* returned: the progress is loaded, the index is emptied, the mapping in
\* memory is the one the analyzer holds.
RunAgain ==
    /\ pc = "done"
    /\ progress' = load_progress(progress_file)
    /\ issues_db' = [f \in {} |-> <<>>]
    /\ codebase_files' = <<>>
    /\ codebase_content_parts' = <<>>
    /\ file_idx' = 1
    /\ chunks' = <<>>
    /\ chunk_idx' = 1
    /\ pc' = "discover"
    /\ gen_calls' = <<>>
    /\ failures' = {}
    /\ returned' = [f \in {} |-> <<>>]
    /\ resume' = NoResume
    /\ flags' = [NoFlags EXCEPT
                    !.all_done_at_start =
                        \A f \in Range(walk) :
                            IsSourceFile(f) =>
                                f \in Range(progress_file.content.processed_files),
                    !.again = TRUE,
                    !.earlier_issues = (issues_db # [f \in {} |-> <<>>])]
    /\ UNCHANGED <<diskVars, cache_mapping, analyzed, abort_cause, fnVars>>

\* The process ends after process_codebase returned or raised.
Exit ==
    /\ pc \in {"done", "aborted"}
    /\ resume' = NoResume
    /\ ClearProcess
    /\ UNCHANGED <<diskVars, analyzed, fnVars>>

\* ---------------------------------------------- single-file entry point
\* The filenames a single-file request can name: the files of the table,
\* some of them absent from the directory, and a name that is in no tree.
Filenames == DOMAIN FileTable \cup {"missing.py"}

\* os.path.exists(file_path)
Exists(dir, filename) == filename \in Range(dir)

\* analyzer.cache_mapping.get(file_path)
mapping_get_path(mapping, file_path) ==
    IF file_path \in DOMAIN mapping THEN mapping[file_path] ELSE NoCache

\* Mutant of SingleFileNotFound: a filename that does not exist falls through
\* to the analysis of the whole codebase.
SingleFileNotFoundRunsAll(filename) ==
    /\ pc = "idle"
    /\ cache_mapping_file.state # "truncated"
    /\ progress_file.state # "truncated"
    /\ ~Exists(walk, filename)
    /\ cache_mapping' = load_cache_mapping(cache_mapping_file)
    /\ progress' = load_progress(progress_file)
    /\ pc' = "discover"
    /\ flags' = [NoFlags EXCEPT !.missing = TRUE]
    /\ UNCHANGED <<diskVars, issues_db, codebase_files, codebase_content_parts,
                   file_idx, chunks, chunk_idx, gen_calls, analyzed, failures,
                   returned, abort_cause, resume, fnVars>>

\* analyze_codebase with a filename that does not exist: the analyzer is
\* constructed and "File not found: <path>" is returned.
SingleFileNotFound(filename) ==
    /\ pc = "idle"
    /\ cache_mapping_file.state # "truncated"
    /\ ~Exists(walk, filename)
    /\ cache_mapping' = load_cache_mapping(cache_mapping_file)
    /\ pc' = "sf_notfound"
    /\ flags' = [NoFlags EXCEPT !.missing = TRUE]
    /\ UNCHANGED <<diskVars, issues_db, progress, codebase_files,
                   codebase_content_parts, file_idx, chunks, chunk_idx,
                   gen_calls, analyzed, failures, returned, abort_cause, resume,
                   fnVars>>

\* analyze_codebase with a filename that exists: the analyzer is constructed
\* and the file is chunked (no chunk for a file that does not decode).
SingleFileStart(filename) ==
    /\ pc = "idle"
    /\ cache_mapping_file.state # "truncated"
    /\ Exists(walk, filename)
    /\ cache_mapping' = load_cache_mapping(cache_mapping_file)
    /\ chunks' = ChunksOf(filename)
    /\ chunk_idx' = 1
    /\ pc' = "sf_chunk"
    /\ UNCHANGED <<diskVars, issues_db, progress, codebase_files,
                   codebase_content_parts, file_idx, gen_calls, analyzed,
                   failures, returned, abort_cause, resume, flags, fnVars>>

\* CodebaseAnalyzer(base_path): json.load raises on a truncated mapping file.
SingleFileCorrupt ==
    /\ pc = "idle"
    /\ cache_mapping_file.state = "truncated"
    /\ pc' = "sf_aborted"
    /\ abort_cause' = "persistence"
    /\ UNCHANGED <<diskVars, cache_mapping, issues_db, progress, codebase_files,
                   codebase_content_parts, file_idx, chunks, chunk_idx,
                   gen_calls, analyzed, failures, returned, resume, flags,
                   fnVars>>

\* One chunk of the single file: analyze_chunk returns the issues of a
\* response, and they are stored under the file's path.
SingleFileAnalyzeChunk(n) ==
    /\ pc = "sf_chunk"
    /\ ~ChunksExhausted(chunks, chunk_idx)
    /\ LET file_path == chunks[chunk_idx].file_path
           issues == ParsedIssues(chunks[chunk_idx], n)
       IN  /\ issues_db' = AppendIssues(issues_db, file_path, issues,
                                mapping_get_path(cache_mapping, file_path))
           /\ returned' = AppendReturned(returned, file_path, issues)
           /\ gen_calls' = Append(gen_calls,
                  GenCall(file_path, chunk_idx, mapping_get(cache_mapping)))
    /\ chunk_idx' = chunk_idx + 1
    /\ UNCHANGED <<diskVars, pc, cache_mapping, progress, codebase_files,
                   codebase_content_parts, file_idx, chunks, analyzed,
                   failures, abort_cause, resume, flags, fnVars>>

\* One chunk of the single file: generate_content raises, analyze_chunk
\* returns [].
SingleFileGenFail ==
    /\ pc = "sf_chunk"
    /\ ~ChunksExhausted(chunks, chunk_idx)
    /\ LET file_path == chunks[chunk_idx].file_path
       IN  /\ gen_calls' = Append(gen_calls,
                  GenCall(file_path, chunk_idx, mapping_get(cache_mapping)))
           /\ failures' = failures \cup {<<file_path, chunk_idx>>}
    /\ chunk_idx' = chunk_idx + 1
    /\ UNCHANGED <<diskVars, pc, cache_mapping, issues_db, progress,
                   codebase_files, codebase_content_parts, file_idx, chunks,
                   analyzed, returned, abort_cause, resume, flags, fnVars>>

\* One chunk of the single file: resolving the cached context raises out of
\* analyze_chunk and out of analyze_codebase.
SingleFileResolveFail ==
    /\ pc = "sf_chunk"
    /\ ~ChunksExhausted(chunks, chunk_idx)
    /\ mapping_get(cache_mapping) # NoCache
    /\ pc' = "sf_aborted"
    /\ abort_cause' = "cache_resolve"
    /\ UNCHANGED <<diskVars, cache_mapping, issues_db, progress, codebase_files,
                   codebase_content_parts, file_idx, chunks, chunk_idx,
                   gen_calls, analyzed, failures, returned, resume, flags,
                   fnVars>>

\* Mutant of SingleFileReturn: the file is recorded as processed.
SingleFileReturnMarksProcessed ==
    /\ pc = "sf_chunk"
    /\ ChunksExhausted(chunks, chunk_idx)
    /\ pc' = "sf_done"
    /\ progress_file' =
          IF chunks = <<>> \/ progress_file.state = "truncated"
          THEN progress_file
          ELSE Persisted([load_progress(progress_file) EXCEPT
                            !.processed_files = Append(@, chunks[1].file_path)])
    /\ UNCHANGED <<walk, mtime, now, cache_mapping_file, cache_mapping,
                   issues_db, progress, codebase_files, codebase_content_parts,
                   file_idx, chunks, chunk_idx, gen_calls, analyzed, failures,
                   returned, abort_cause, resume, flags, fnVars>>

\* "for chunk in chunks" is over: the response text is built and returned.
SingleFileReturn ==
    /\ pc = "sf_chunk"
    /\ ChunksExhausted(chunks, chunk_idx)
    /\ pc' = "sf_done"
    /\ UNCHANGED <<diskVars, cache_mapping, issues_db, progress, codebase_files,
                   codebase_content_parts, file_idx, chunks, chunk_idx,
                   gen_calls, analyzed, failures, returned, abort_cause, resume,
                   flags, fnVars>>

\* The single file has chunks, is a source file, and is not in the persisted
\* processed_files: a directory run has it left to discover.
LeftToDiscover ==
    /\ chunks # <<>>
    /\ IsSourceFile(chunks[1].file_path)
    /\ chunks[1].file_path \notin
          Range(load_progress(progress_file).processed_files)

\* The process of a single-file request ends, or is killed: the disk is as it
\* was.
SingleFileExit ==
    /\ pc \in {"sf_chunk", "sf_done", "sf_notfound", "sf_aborted"}
    /\ resume' = IF pc = "sf_done" /\ resume.state = "none" /\ LeftToDiscover
                 THEN [state |-> "sf_pending", A |-> "None",
                       B |-> chunks[1].file_path]
                 ELSE resume
    /\ ClearProcess
    /\ UNCHANGED <<diskVars, analyzed, fnVars>>

\* Somebody writes a source file: its modification time becomes the present.
Touch(f) ==
    /\ now < MaxTime
    /\ f \in Touchable(walk)
    /\ now' = now + 1
    /\ mtime' = [mtime EXCEPT ![f] = now + 1]
    /\ UNCHANGED <<walk, progress_file, cache_mapping_file, procVars, histVars,
                   fnVars>>

Next ==
    \/ StartRun
    \/ StartRunCorrupt
    \/ Discover
    \/ Pad
    \/ CacheReuse
    \/ CacheCreate
    \/ CacheCreateFail
    \/ SaveMappingOpen
    \/ SaveMappingOpenFail
    \/ SaveMappingDump
    \/ NextFile
    \/ RunDone
    \/ \E n \in 0..MaxIssues : AnalyzeChunk(n)
    \/ AnalyzeChunkGenFail
    \/ AnalyzeChunkResolveFail
    \/ MarkProcessed
    \/ SaveProgressOpen
    \/ SaveProgressOpenFail
    \/ SaveProgressDump
    \/ Crash
    \/ Exit
    \/ RunAgain
    \/ \E filename \in Filenames : SingleFileNotFound(filename)
    \/ \E filename \in Filenames : SingleFileStart(filename)
    \/ SingleFileCorrupt
    \/ \E n \in 0..MaxIssues : SingleFileAnalyzeChunk(n)
    \/ SingleFileGenFail
    \/ SingleFileResolveFail
    \/ SingleFileReturn
    \/ SingleFileExit
    \/ \E f \in DOMAIN FileTable : Touch(f)

Spec == Init /\ [][Next]_vars

\* ------------------------------------------- the pure functions, on inputs
\* Inputs of get_file_chunks: every text up to MaxTextLen, every chunk_size
\* from 1 to MaxChunkSize.
ChunkInputs ==
    [op : {"get_file_chunks"}, text : TextsUpTo(MaxTextLen),
     chunk_size : 1..MaxChunkSize]

\* Inputs of is_cache_valid: a mapping with or without an entry created at
\* `created`, a file that exists or not, modified at `mtime`.
ValidInputs ==
    [op : {"is_cache_valid"}, has_entry : BOOLEAN, created : 0..MaxTime,
     exists : BOOLEAN, mtime : 0..MaxTime]

\* Inputs of the padding block: one or two content parts and min_token_count.
PadInputs ==
    [op : {"pad"},
     parts : UNION {[1..k -> TextsUpTo(MaxPartLen)] : k \in 1..2},
     min_token_count : 1..MaxMinTokens]

\* The blocks an enumerated response is made of.  Each carries its text and,
\* read off the text by hand, what it is: `kind` is "issue" for a block that
\* yields an Issue, "bad" for one that raises, "blank" for one that is empty
\* once stripped; `grammar` holds when the block is "Issue: <description>"
\* followed only by "Fix Suggestion: <text>" and "Priority: <integer>" lines.
ResponseBlocks ==
    << [text |-> <<"Issue", Colon, " ", "d1">>,
        kind |-> "issue", grammar |-> TRUE,
        description |-> <<"d1">>, fix_suggestion |-> Absent, priority |-> 0],
       [text |-> <<"Issue", Colon, " ", "d2", Newline,
                   "Fix Suggestion", Colon, " ", "f2", Newline,
                   "Priority", Colon, " ", "2">>,
        kind |-> "issue", grammar |-> TRUE,
        description |-> <<"d2">>, fix_suggestion |-> Some(<<"f2">>),
        priority |-> 2],
       [text |-> <<"Issue", Colon, " ", "d3", Newline,
                   "Fix Suggestion", Colon, " ", "None", Newline,
                   "Priority", Colon, " ", "7">>,
        kind |-> "issue", grammar |-> TRUE,
        description |-> <<"d3">>, fix_suggestion |-> Absent, priority |-> 7],
       [text |-> <<"Issue", Colon, "d4", " ", Newline,
                   "Priority", Colon, "7", Newline,
                   "Fix Suggestion", Colon, " ", "f4", " ", "f4">>,
        kind |-> "issue", grammar |-> TRUE,
        description |-> <<"d4">>,
        fix_suggestion |-> Some(<<"f4", " ", "f4">>), priority |-> 7],
       [text |-> <<"Issue", Colon, " ", "d5", Colon, " ", "d5">>,
        kind |-> "issue", grammar |-> TRUE,
        description |-> <<"d5", Colon, " ", "d5">>,
        fix_suggestion |-> Absent, priority |-> 0],
       [text |-> <<"d6", " ", "d6">>,
        kind |-> "bad", grammar |-> FALSE,
        description |-> <<>>, fix_suggestion |-> Absent, priority |-> 0],
       [text |-> <<"Issue", Colon, " ", "d7", Newline,
                   "Priority", Colon, " ", "high">>,
        kind |-> "bad", grammar |-> FALSE,
        description |-> <<>>, fix_suggestion |-> Absent, priority |-> 0],
       [text |-> <<" ", Newline>>,
        kind |-> "blank", grammar |-> FALSE,
        description |-> <<>>, fix_suggestion |-> Absent, priority |-> 0],
       [text |-> <<"Note", Colon, " ", "d9">>,
        kind |-> "issue", grammar |-> FALSE,
        description |-> <<"d9">>, fix_suggestion |-> Absent, priority |-> 0],
       [text |-> <<"Issue", Colon, " ", "d10", Newline,
                   " ", "Priority", Colon, " ", "2">>,
        kind |-> "issue", grammar |-> FALSE,
        description |-> <<"d10">>, fix_suggestion |-> Absent, priority |-> 0],
       [text |-> <<"Issue", Colon, " ", "d11", " ", NoIssuesFound>>,
        kind |-> "issue", grammar |-> TRUE,
        description |-> <<"d11", " ", NoIssuesFound>>,
        fix_suggestion |-> Absent, priority |-> 0],
       [text |-> <<NoIssuesFound>>,
        kind |-> "bad", grammar |-> FALSE,
        description |-> <<>>, fix_suggestion |-> Absent, priority |-> 0] >>

\* The response text of a sequence of blocks: each block on its own lines,
\* a "---" line between two blocks.
RECURSIVE Render(_)
Render(blocks) ==
    IF blocks = <<>> THEN <<>>
    ELSE IF Len(blocks) = 1 THEN ResponseBlocks[blocks[1]].text
    ELSE ResponseBlocks[blocks[1]].text \o <<Newline, Delimiter, Newline>>
         \o Render(Tail(blocks))

\* Inputs of the parsing step: the responses of one to MaxBlocks blocks.
ParseInputs ==
    [op : {"parse"},
     blocks : UNION {[1..k -> DOMAIN ResponseBlocks] : k \in 1..MaxBlocks}]

\* The chunk the enumerated responses are about.
ParsedChunk == CodeChunk("f.py", 0, 1, <<"w", "\n">>)


InitFn ==
    /\ walk = <<"a.py", "notes.txt", "b.js">>
    /\ mtime = [f \in DOMAIN FileTable |-> 0]
    /\ now = 0
    /\ progress_file = [state |-> "absent", content |-> DefaultProgress]
    /\ cache_mapping_file = [state |-> "absent", content |-> EmptyMapping]
    /\ pc = "idle"
    /\ NoProcess
    /\ analyzed = {}
    /\ resume = NoResume
    /\ fn_in \in ChunkInputs \cup ValidInputs \cup PadInputs \cup ParseInputs
    /\ fn_out = NoOutput

ApplyGetFileChunks ==
    /\ fn_in.op = "get_file_chunks"
    /\ fn_out = NoOutput
    /\ fn_out' = [op |-> "get_file_chunks",
                  result |-> get_file_chunks("f.py", fn_in.text, fn_in.chunk_size)]
    /\ UNCHANGED <<diskVars, procVars, histVars, fn_in>>

ApplyIsCacheValid ==
    /\ fn_in.op = "is_cache_valid"
    /\ fn_out = NoOutput
    /\ LET mapping == IF fn_in.has_entry
                      THEN (CacheKey :> CacheName(fn_in.created))
                      ELSE EmptyMapping
           mtimes  == [f \in (IF fn_in.exists THEN {"f.py"} ELSE {}) |-> fn_in.mtime]
       IN  fn_out' = [op |-> "is_cache_valid",
                      result |-> is_cache_valid(mapping, mtimes, "f.py")]
    /\ UNCHANGED <<diskVars, procVars, histVars, fn_in>>

ApplyPadding ==
    /\ fn_in.op = "pad"
    /\ fn_out = NoOutput
    /\ fn_out' = [op |-> "pad",
                  result |-> PadParts(fn_in.parts, fn_in.min_token_count)]
    /\ UNCHANGED <<diskVars, procVars, histVars, fn_in>>

ApplyParse ==
    /\ fn_in.op = "parse"
    /\ fn_out = NoOutput
    /\ fn_out' = [op |-> "parse",
                  result |-> ParseResponse(ParsedChunk, Render(fn_in.blocks))]
    /\ UNCHANGED <<diskVars, procVars, histVars, fn_in>>

NextFn ==
    \/ ApplyGetFileChunks
    \/ ApplyIsCacheValid
    \/ ApplyPadding
    \/ ApplyParse

SpecFn == InitFn /\ [][NextFn]_vars

\* ------------------------------------------------------------------ claims
\* C3: for every text and every positive chunk_size the contents of the
\* chunks get_file_chunks returns, joined in order, are the text; the lines
\* of the chunks, in order, are the lines of the text (each line in exactly
\* one chunk); no chunk is empty; an empty text gives no chunk.
C3_ChunksPartitionText ==
    fn_out.op = "get_file_chunks" =>
        LET cs == fn_out.result
        IN  /\ Join([i \in DOMAIN cs |-> cs[i].content]) = fn_in.text
            /\ Join([i \in DOMAIN cs |-> ReadLines(cs[i].content)])
                   = ReadLines(fn_in.text)
            /\ \A i \in DOMAIN cs : cs[i].content # <<>>
            /\ (fn_in.text = <<>> => cs = <<>>)

\* A text cut into a full chunk and a short remainder chunk.
C3_Witness ==
    /\ fn_out.op = "get_file_chunks"
    /\ Len(fn_out.result) >= 2
    /\ Len(fn_out.result[Len(fn_out.result)].content) < fn_in.chunk_size

\* C4: is_cache_valid is false without a mapping entry, false with an entry
\* when the file is missing, and otherwise true exactly when the file's
\* modification time is <= the creation time in the identifier.
C4_CacheValidity ==
    fn_out.op = "is_cache_valid" =>
        /\ (~fn_in.has_entry => fn_out.result = FALSE)
        /\ (fn_in.has_entry /\ ~fn_in.exists => fn_out.result = FALSE)
        /\ (fn_in.has_entry /\ fn_in.exists =>
                (fn_out.result = TRUE <=> fn_in.mtime <= fn_in.created))

\* A file modified at the very time the cache was created is still valid.
C4_Witness ==
    /\ fn_out.op = "is_cache_valid"
    /\ fn_in.has_entry /\ fn_in.exists
    /\ fn_in.mtime = fn_in.created
    /\ fn_out.result = TRUE

\* C5: with at least one content part, an estimate below min_token_count
\* appends exactly one padding part and the estimate of the padded body is
\* >= min_token_count; an estimate >= min_token_count appends nothing.
C5_PaddingClosesGap ==
    fn_out.op = "pad" =>
        LET parts == fn_in.parts
            body  == fn_out.result
        IN  IF TotalTokens(parts) < fn_in.min_token_count
            THEN /\ Len(body) = Len(parts) + 1
                 /\ SubSeq(body, 1, Len(parts)) = parts
                 /\ TotalTokens(body) >= fn_in.min_token_count
            ELSE body = parts

\* Files without a single word and a deficit of ten or more tokens.
C5_Witness ==
    /\ fn_out.op = "pad"
    /\ TotalTokens(fn_in.parts) = 0
    /\ fn_in.min_token_count >= 10
    /\ Len(fn_out.result) = Len(fn_in.parts) + 1

\* The issues issues_db holds for a file, and those analyze_chunk returned.
IssuesOf(db, p) ==
    IF p \in DOMAIN db THEN [j \in DOMAIN db[p] |-> db[p][j].issue] ELSE <<>>

ReturnedOf(p) == IF p \in DOMAIN returned THEN returned[p] ELSE <<>>

\* How many generation calls this run has issued for chunk k of file p.
CallsFor(p, k) ==
    Cardinality({i \in DOMAIN gen_calls :
                    gen_calls[i].file_path = p /\ gen_calls[i].k = k})

IsPrefix(s, t) == Len(s) <= Len(t) /\ SubSeq(t, 1, Len(s)) = s

\* C1: in the run that follows a crash between the completed save_progress
\* of file A and the first chunk of the next file B, no generation call is
\* issued for A, A is not discovered and B is, and when that run returns a
\* generation call has been issued for every chunk of B.
C1_CrashResume ==
    resume.state = "running" =>
        /\ \A i \in DOMAIN gen_calls : gen_calls[i].file_path # resume.A
        /\ (pc \notin {"discover"} =>
                /\ resume.A \notin Range(codebase_files)
                /\ resume.B \in Range(codebase_files))
        /\ (pc = "done" =>
                \A k \in DOMAIN ChunksOf(resume.B) : CallsFor(resume.B, k) >= 1)

\* The resumed run has returned; A has chunks and B has been analyzed.
C1_Witness ==
    /\ resume.state = "running"
    /\ pc = "done"
    /\ ChunksOf(resume.A) # <<>>
    /\ CallsFor(resume.B, 1) = 1

\* C2: every path in the persisted processed_files has had a generation call
\* completed for each of its chunks; a path is appended to processed_files
\* only after all its chunks were analyzed and the issues they returned were
\* appended to issues_db; and progress is saved only after the append (what
\* is on disk is a prefix of what is in memory).
C2_ProcessedMeansAnalyzed ==
    /\ progress_file.state = "valid" =>
           \A p \in Range(progress_file.content.processed_files) :
               \A k \in DOMAIN ChunksOf(p) : <<p, k>> \in analyzed
    /\ pc \in {"file", "chunk", "save_open", "save_dump", "done"} =>
           /\ \A p \in Range(progress.processed_files) :
                  /\ \A k \in DOMAIN ChunksOf(p) : <<p, k>> \in analyzed
                  /\ (p \in Range(codebase_files) =>
                          /\ \A k \in DOMAIN ChunksOf(p) : CallsFor(p, k) = 1
                          /\ IssuesOf(issues_db, p) = ReturnedOf(p))
           /\ (progress_file.state = "valid" =>
                   IsPrefix(progress_file.content.processed_files,
                            progress.processed_files))

\* Both files are persisted as processed and an issue of a.py is indexed.
C2_Witness ==
    /\ progress_file.state = "valid"
    /\ Len(progress_file.content.processed_files) = 2
    /\ pc = "done"
    /\ IssuesOf(issues_db, "a.py") # <<>>

\* C6: a generation call that raises is caught: it never aborts the run, the
\* call is not issued again, the chunk contributes no issue, the loop moves
\* past the chunk, and when the run returns every chunk of every discovered
\* file has had exactly one call and every discovered file is persisted in
\* processed_files.
C6_GenerationFailureIsolated ==
    /\ abort_cause # "generation"
    /\ \A c \in failures :
           /\ CallsFor(c[1], c[2]) = 1
           /\ \A j \in DOMAIN IssuesOf(issues_db, c[1]) :
                  IssuesOf(issues_db, c[1])[j].chunk # ChunksOf(c[1])[c[2]]
           /\ (pc = "chunk" /\ CurrentFile = c[1] => chunk_idx > c[2])
           /\ (pc = "done" =>
                   /\ progress_file.state = "valid"
                   /\ \A p \in Range(codebase_files) :
                          /\ \A k \in DOMAIN ChunksOf(p) : CallsFor(p, k) = 1
                          /\ p \in Range(progress_file.content.processed_files))

\* The call for the first chunk of the first of two files raised, and the
\* run has returned.
C6_Witness ==
    /\ pc = "done"
    /\ <<"a.py", 1>> \in failures
    /\ codebase_files = <<"a.py", "b.js">>

\* C7 (as claimed): an exception leaves process_codebase only when reading
\* or writing the progress file or the cache-mapping file fails.
C7_OnlyPersistenceAborts ==
    pc = "aborted" => abort_cause = "persistence"

\* C8 (as claimed): with a non-empty discovered set the mapping entry is
\* reused only if every discovered file's modification time is <= the
\* creation time in the entry.
C8_ReuseOnlyIfAllFresh ==
    [][(pc = "cache" /\ pc' = "file" /\ codebase_files # <<>>) =>
           \A i \in DOMAIN codebase_files :
               mtime[codebase_files[i]] <= CreationTime(cache_mapping[CacheKey])]_vars

C10_ProgressNeverTruncated ==
    pc = "idle" => progress_file.state # "truncated"

\* ------------------------------------------------------------ response parser
\* The blocks of ResponseBlocks whose text holds the phrase "No issues found".
NoIssueBlocks == {11, 12}

\* The Issues of the blocks that yield one, in block order, as recorded in
\* ResponseBlocks.
RECURSIVE ExpectedIssues(_)
ExpectedIssues(blocks) ==
    IF blocks = <<>> THEN <<>>
    ELSE LET b == ResponseBlocks[Head(blocks)]
         IN  (IF b.kind = "issue"
              THEN <<Issue(ParsedChunk, b.description, b.fix_suggestion,
                           b.priority)>>
              ELSE <<>>)
             \o ExpectedIssues(Tail(blocks))

HasPhrase(blocks) == \E i \in DOMAIN blocks : blocks[i] \in NoIssueBlocks

\* C11: a response whose text holds "No issues found" anywhere, inside a
\* well-formed block included, is parsed to the empty list of issues.
C11_NoIssuesFoundWins ==
    (fn_out.op = "parse" /\ HasPhrase(fn_in.blocks)) => fn_out.result = <<>>

\* A response with a well-formed block and, in another block, the phrase.
C11_Witness ==
    /\ fn_out.op = "parse"
    /\ HasPhrase(fn_in.blocks)
    /\ \E i \in DOMAIN fn_in.blocks :
          /\ fn_in.blocks[i] \notin NoIssueBlocks
          /\ ResponseBlocks[fn_in.blocks[i]].grammar
    /\ fn_out.result = <<>>

\* C12: a response without the phrase, all of whose non-blank blocks are
\* "Issue: <description>" followed by "Fix Suggestion:" and "Priority:
\* <integer>" lines, is parsed to one Issue per non-blank block, in block
\* order: the description is the stripped text after the first colon, the
\* fix suggestion is the text of its line (absent for the literal None or
\* when there is no such line), the priority is the integer of its line (0
\* when there is no such line).
C12_OneIssuePerBlock ==
    (/\ fn_out.op = "parse"
     /\ ~HasPhrase(fn_in.blocks)
     /\ \A i \in DOMAIN fn_in.blocks :
           \/ ResponseBlocks[fn_in.blocks[i]].grammar
           \/ ResponseBlocks[fn_in.blocks[i]].kind = "blank")
    => /\ fn_out.result = ExpectedIssues(fn_in.blocks)
       /\ Len(fn_out.result) =
            Cardinality({i \in DOMAIN fn_in.blocks :
                            ResponseBlocks[fn_in.blocks[i]].kind # "blank"})

\* A literal None, a blank block, then a block with both fields.
C12_Witness ==
    /\ fn_out.op = "parse"
    /\ fn_in.blocks = <<3, 8, 2>>
    /\ Len(fn_out.result) = 2
    /\ fn_out.result[1].fix_suggestion = Absent
    /\ fn_out.result[1].priority = 7
    /\ fn_out.result[2].fix_suggestion = Some(<<"f2">>)

\* C13: in a response without the phrase, a block that raises (a first line
\* without a colon, a Priority that is not an integer) yields no Issue, and
\* the blocks before and after it are still parsed and returned in order.
C13_BadBlockSkipped ==
    (/\ fn_out.op = "parse"
     /\ ~HasPhrase(fn_in.blocks)
     /\ \E i \in DOMAIN fn_in.blocks :
           ResponseBlocks[fn_in.blocks[i]].kind = "bad")
    => fn_out.result = ExpectedIssues(fn_in.blocks)

\* A bad block between two good ones: both good ones are returned.
C13_Witness ==
    /\ fn_out.op = "parse"
    /\ Len(fn_in.blocks) = 3
    /\ ResponseBlocks[fn_in.blocks[1]].kind = "issue"
    /\ ResponseBlocks[fn_in.blocks[2]].kind = "bad"
    /\ ResponseBlocks[fn_in.blocks[3]].kind = "issue"
    /\ ~HasPhrase(fn_in.blocks)
    /\ Len(fn_out.result) = 2
    /\ fn_out.result[2].description =
          ResponseBlocks[fn_in.blocks[3]].description

\* ------------------------------------------------------ single-file request
\* C14: a single-file request for a filename that does not exist returns the
\* "File not found" message, issues no generation call, holds an empty issues
\* index, and no step of it changes the progress file or the cache mapping,
\* in memory (it is what the file holds) or on disk.
C14_FileNotFound ==
    /\ [](flags.missing =>
            /\ pc = "sf_notfound"
            /\ gen_calls = <<>>
            /\ issues_db = [f \in {} |-> <<>>]
            /\ cache_mapping = load_cache_mapping(cache_mapping_file)
            /\ ~flags.created
            /\ ~flags.mapping_written
            /\ ~flags.progress_written)
    /\ [][flags'.missing =>
            /\ progress_file' = progress_file
            /\ cache_mapping_file' = cache_mapping_file]_vars

\* The message is returned in a directory that has a progress file and a
\* cache mapping file.
C14_Witness ==
    /\ pc = "sf_notfound"
    /\ flags.missing
    /\ progress_file.state = "valid"
    /\ progress_file.content.processed_files # <<>>
    /\ cache_mapping_file.state = "valid"

\* ------------------------------------------------------ whole-codebase run
\* <<path, k>> for every chunk of every file, file by file, chunk by chunk.
RECURSIVE CallOrder(_)
CallOrder(files) ==
    IF files = <<>> THEN <<>>
    ELSE [k \in 1..Len(ChunksOf(Head(files))) |-> <<Head(files), k>>]
         \o CallOrder(Tail(files))

\* C15: a run of process_codebase that has ended, its remote calls having
\* returned or failed and persistence not having failed, has issued exactly
\* one generation call per chunk of every discovered file, in discovery order
\* and chunk order, and the persisted processed_files holds every discovered
\* file.
C15_EveryChunkOnce ==
    (pc \in {"done", "aborted"} /\ abort_cause # "persistence") =>
        /\ [i \in DOMAIN gen_calls |-> <<gen_calls[i].file_path, gen_calls[i].k>>]
              = CallOrder(codebase_files)
        /\ progress_file.state = "valid"
        /\ Range(codebase_files) \subseteq
              Range(progress_file.content.processed_files)

\* ------------------------------------------------------- cache creation
\* The mapping in memory has an entry, and the first discovered file was not
\* modified after the cache the entry names was created.
EntryValid ==
    /\ CacheKey \in DOMAIN cache_mapping
    /\ mtime[codebase_files[1]] <= CreationTime(cache_mapping[CacheKey])

\* C16: in a run that discovered at least one file, a cache is created at
\* most once, and only when the mapping has no entry or the entry is not
\* valid; the entry is then overwritten with the new identifier, and the
\* mapping is on disk before the first chunk is analyzed.  When the entry is
\* valid no cache is created, and the mapping in memory and on disk is what
\* it was.
C16_CacheCreatedWhenStale ==
    /\ [](flags.creates <= 1)
    /\ []((flags.created /\ gen_calls # <<>>) =>
            /\ flags.mapping_written
            /\ cache_mapping_file = Persisted(cache_mapping))
    /\ []((/\ pc \in {"file", "chunk", "save_open", "save_dump", "done"}
           /\ codebase_files # <<>>
           /\ ~flags.created) =>
            /\ ~flags.mapping_written
            /\ cache_mapping = load_cache_mapping(cache_mapping_file))
    /\ [][(pc = "cache" /\ codebase_files # <<>>) =>
            /\ pc' = "map_open" =>
                  /\ ~EntryValid
                  /\ flags'.creates = flags.creates + 1
                  /\ cache_mapping' = (CacheKey :> CacheName(now))
            /\ pc' = "file" =>
                  /\ EntryValid
                  /\ flags'.creates = flags.creates
                  /\ cache_mapping' = cache_mapping
                  /\ cache_mapping_file' = cache_mapping_file
            /\ pc' = "aborted" => ~EntryValid]_vars

\* A later run finds the entry stale, creates a cache, writes the mapping and
\* analyzes a chunk.
C16_Witness ==
    /\ flags.created
    /\ codebase_files = <<"b.js">>
    /\ gen_calls # <<>>
    /\ CreationTime(cache_mapping[CacheKey]) > 0
    /\ cache_mapping_file = Persisted(cache_mapping)

\* ------------------------------------------------------------- discovery
\* C17: the discovered files are exactly the files of the tree with a
\* recognized extension that are not in the loaded processed_files and that
\* decode, in walk order; a file that does not decode gets no generation
\* call and is never in processed_files, in memory or on disk, so every
\* later run meets it again.
C17_DiscoveredSet ==
    /\ pc \in {"pad", "cache", "map_open", "map_dump"} =>
          /\ Range(codebase_files) =
                {f \in Range(walk) :
                    /\ FileTable[f].ext \in {".py", ".js", ".cpp"}
                    /\ FileTable[f].decodes
                    /\ f \notin Range(load_progress(progress_file).processed_files)}
          /\ \A i, j \in DOMAIN codebase_files :
                i < j =>
                    \E m, n \in DOMAIN walk :
                        /\ m < n
                        /\ walk[m] = codebase_files[i]
                        /\ walk[n] = codebase_files[j]
    /\ \A f \in Range(walk) :
          ~FileTable[f].decodes =>
              /\ \A i \in DOMAIN gen_calls : gen_calls[i].file_path # f
              /\ \A c \in analyzed : c[1] # f
              /\ f \notin Range(progress.processed_files)
              /\ f \notin Range(progress_file.content.processed_files)

\* A later run in the tree with the file that does not decode: one file is
\* already processed, one is left to discover.
C17_Witness ==
    /\ pc = "pad"
    /\ "bad.py" \in Range(walk)
    /\ progress_file.content.processed_files = <<"a.py">>
    /\ codebase_files = <<"b.js">>

\* ------------------------------------------------------------ chunk shape
\* The content of a chunk without its last line.
WithoutLastLine(content) ==
    Join(SubSeq(ReadLines(content), 1, Len(ReadLines(content)) - 1))

\* C18: every chunk before the last has a content of at least chunk_size
\* characters, so only the last chunk can be shorter; and a chunk of at
\* least chunk_size characters is shorter than chunk_size without its last
\* line.
C18_ChunkSizes ==
    fn_out.op = "get_file_chunks" =>
        LET cs == fn_out.result
        IN  \A i \in DOMAIN cs :
                /\ i < Len(cs) => Len(cs[i].content) >= fn_in.chunk_size
                /\ Len(cs[i].content) >= fn_in.chunk_size =>
                      Len(WithoutLastLine(cs[i].content)) < fn_in.chunk_size

\* A chunk of two lines that reaches chunk_size with its second line, then a
\* shorter remainder.
C18_Witness ==
    /\ fn_out.op = "get_file_chunks"
    /\ Len(fn_out.result) = 2
    /\ Len(ReadLines(fn_out.result[1].content)) = 2
    /\ Len(fn_out.result[1].content) > fn_in.chunk_size
    /\ Len(fn_out.result[2].content) < fn_in.chunk_size

\* C19: the first chunk starts at line 0 and every later chunk starts at the
\* end_line of the chunk before it plus one; the end_line of a chunk cut at
\* the threshold is the 0-based index of its last line; the end_line of a
\* final remainder chunk is the number of lines of the file, one more than
\* the index of its last line.
C19_LineNumbers ==
    fn_out.op = "get_file_chunks" =>
        LET cs == fn_out.result
        IN  /\ cs # <<>> => cs[1].start_line = 0
            /\ \A i \in DOMAIN cs :
                  /\ i > 1 => cs[i].start_line = cs[i - 1].end_line + 1
                  /\ Len(cs[i].content) >= fn_in.chunk_size =>
                        cs[i].end_line =
                           cs[i].start_line + Len(ReadLines(cs[i].content)) - 1
                  /\ Len(cs[i].content) < fn_in.chunk_size =>
                        /\ cs[i].end_line = Len(ReadLines(fn_in.text))
                        /\ cs[i].end_line =
                              cs[i].start_line + Len(ReadLines(cs[i].content))

\* Two one-line chunks cut at the threshold, then a remainder of one line.
C19_Witness ==
    /\ fn_out.op = "get_file_chunks"
    /\ Len(fn_out.result) = 3
    /\ fn_out.result[2].start_line = 1
    /\ fn_out.result[2].end_line = 1
    /\ fn_out.result[3].start_line = 2
    /\ fn_out.result[3].end_line = 3

\* ------------------------------------------------------- partial analysis
\* The positions in gen_calls of the calls for file p.
CallIndexes(p) == {i \in DOMAIN gen_calls : gen_calls[i].file_path = p}

\* C20: when a run is killed with some chunks of file B analyzed and some
\* not, B is not in the persisted processed_files; the next run discovers B
\* and its generation calls for B start at the first chunk and follow the
\* chunk order, all of them issued when it returns.  current_file and
\* current_position are never written: from a fresh directory they stay
\* absent and 0, in memory and on disk.
C20_PartialFileRedone ==
    /\ resume.state = "partial_pending" =>
          resume.B \notin Range(progress_file.content.processed_files)
    /\ (resume.state = "partial_running" /\ pc # "discover") =>
          /\ resume.B \in Range(codebase_files)
          /\ \A i \in CallIndexes(resume.B) :
                gen_calls[i].k =
                    Cardinality({j \in CallIndexes(resume.B) : j <= i})
          /\ pc = "done" =>
                Cardinality(CallIndexes(resume.B)) = Len(ChunksOf(resume.B))
    /\ progress.current_file = "None"
    /\ progress.current_position = 0
    /\ progress_file.content.current_file = "None"
    /\ progress_file.content.current_position = 0

\* The run after the kill has returned, having analyzed both chunks of B, and
\* the progress it saved has no current file and position 0.
C20_Witness ==
    /\ resume.state = "partial_running"
    /\ pc = "done"
    /\ Len(ChunksOf(resume.B)) = 2
    /\ CallsFor(resume.B, 1) = 1
    /\ CallsFor(resume.B, 2) = 1
    /\ resume.B \in Range(progress_file.content.processed_files)
    /\ progress_file.content.current_file = "None"

\* ------------------------------------------------------------ issues index
\* The issues of a file's index that are about one chunk.
IssuesAbout(db, p, chunk) ==
    SelectSeq(IssuesOf(db, p), LAMBDA issue : issue.chunk = chunk)

SingleFilePcs == {"sf_chunk", "sf_done", "sf_notfound", "sf_aborted"}

\* C22: a single-file request creates no cache and writes neither the
\* cache-mapping file nor the progress file; its generation calls are one per
\* chunk of the named file, in chunk order, each against the cached context
\* the mapping file names, or against the uncached model when it names none;
\* the file is not added to processed_files, so the directory run that
\* follows discovers it and, when it returns, has called every chunk of it.
C22_SingleFileFrame ==
    /\ [](pc \in SingleFilePcs =>
            /\ flags.creates = 0
            /\ ~flags.mapping_written
            /\ ~flags.progress_written
            /\ progress.processed_files = <<>>
            /\ \A i \in DOMAIN gen_calls :
                  /\ gen_calls[i].k = i
                  /\ gen_calls[i].file_path = chunks[i].file_path
                  /\ gen_calls[i].cached =
                        mapping_get(load_cache_mapping(cache_mapping_file))
            /\ pc = "sf_done" => Len(gen_calls) = Len(chunks))
    /\ [][(pc \in SingleFilePcs \/ pc' \in SingleFilePcs) =>
            /\ progress_file' = progress_file
            /\ cache_mapping_file' = cache_mapping_file]_vars
    /\ []((resume.state = "sf_running" /\ pc # "discover") =>
            /\ resume.B \in Range(codebase_files)
            /\ pc = "done" =>
                  \A k \in DOMAIN ChunksOf(resume.B) : CallsFor(resume.B, k) = 1)

\* A request for a file of two chunks that no run has processed has returned,
\* its calls made against the cached context of the mapping file.
C22_Witness ==
    /\ pc = "sf_done"
    /\ Len(gen_calls) = 2
    /\ gen_calls[1].cached # NoCache
    /\ gen_calls[1].file_path \notin
          Range(progress_file.content.processed_files)

\* The directory run that follows a single-file request has returned, having
\* analyzed the file of the request.
C22_WitnessLaterRun ==
    /\ resume.state = "sf_running"
    /\ pc = "done"
    /\ CallsFor(resume.B, 1) = 1

\* ------------------------------------------------- cached_content_name
\* C23 (as claimed): in a directory run and in a single-file request alike,
\* the cached_content_name of every record of the index is the identifier
\* the generation call for the record's chunk was made against, absent
\* exactly when that call went to the uncached model.
C23_RecordNamesCallContext ==
    \A p \in DOMAIN issues_db :
        \A j \in DOMAIN issues_db[p] :
            \E i \in DOMAIN gen_calls :
                /\ gen_calls[i].file_path = p
                /\ ChunksOf(p)[gen_calls[i].k] = issues_db[p][j].issue.chunk
                /\ gen_calls[i].cached = issues_db[p][j].cached_content_name

\* The same statement for the directory run alone.
C23_DirectoryRunOnly ==
    pc \notin SingleFilePcs => C23_RecordNamesCallContext

\* ---------------------------------------------------- persisted progress
\* The processed_files a restart would read from the progress file.
PersistedList ==
    IF progress_file.state = "valid"
    THEN progress_file.content.processed_files
    ELSE <<>>

\* C24 (as claimed): the persisted processed_files never holds a path twice
\* and never loses an entry: every step leaves the list a restart would read
\* as it is, or extends it by exactly one path that was not in it.
C24_PersistedListGrows ==
    /\ [](\A i, j \in DOMAIN PersistedList :
              i # j => PersistedList[i] # PersistedList[j])
    /\ [][/\ IsPrefix(PersistedList, PersistedList')
          /\ Len(PersistedList') <= Len(PersistedList) + 1
          /\ Len(PersistedList') = Len(PersistedList) + 1 =>
                PersistedList'[Len(PersistedList')] \notin Range(PersistedList)
         ]_vars

\* The same statement for the saves that complete: from the list persisted
\* before a save to the list its json.dump writes.
C24_CompletedSavesGrow ==
    /\ [](\A i, j \in DOMAIN PersistedList :
              i # j => PersistedList[i] # PersistedList[j])
    /\ [][(pc = "save_dump" /\ pc' = "file") =>
            /\ progress_file'.state = "valid"
            /\ Len(progress_file'.content.processed_files)
                  = Len(progress.processed_files)
            /\ progress_file'.content.processed_files = progress.processed_files
            /\ progress.processed_files[Len(progress.processed_files)]
                  \notin Range(SubSeq(progress.processed_files, 1,
                                      Len(progress.processed_files) - 1))]_vars

====
